---------------------------- MODULE Spec2Model ----------------------------
(***************************************************************************)
(* Model of monstereo/activity.py: social_interactions (the evaluator) and *)
(* check_f_formations (the F-formation tester), driven by the loop of      *)
(* show_social that evaluates every focal index of one frame.              *)
(*                                                                         *)
(* Arithmetic.  Lengths are integers in metres.  The code compares         *)
(* Euclidean norms; a norm is non-negative, so  a <= b  is decided on the  *)
(* squares, and every formula below is the code's formula multiplied by a  *)
(* positive constant (written next to it) so that it stays in the          *)
(* integers.  Angles are the multiples of 90 degrees plus one oblique      *)
(* angle with rational sine and cosine (3-4-5).  The model is the code in  *)
(* exact arithmetic; floating-point rounding is not modelled.              *)
(*                                                                         *)
(* Python lists are functions over 0..n-1, so that the indices are the     *)
(* code's; a negative index wraps as in Python.                            *)
(***************************************************************************)
EXTENDS Integers, Sequences, FiniteSets, TLC

VARIABLES
    centers,         \* caller's list of [x, z] positions
    angles,          \* caller's list of orientations
    dds,             \* caller's depth estimates, or None
    stds,            \* caller's depth scales, or None
    social_distance, \* keyword argument
    n_samples,       \* keyword argument
    threshold_prob,  \* keyword argument, a rational <<num, den>>, den > 0
    threshold_dist,  \* keyword argument
    radii,           \* keyword argument, a sequence
    todo,            \* focal indices the caller still has to evaluate
    colors,          \* verdicts returned so far, in call order
    pc,              \* position inside the running call
    idx,             \* focal index of the running call
    indices,         \* candidate list of the running call (line 36)
    samples_d,       \* sample matrix of the running call (line 54)
    k,               \* position of idx_t in indices (loops at 41 and 57)
    s_d,             \* sample index (loop at 59)
    new_centers,     \* perturbed copy of centers used for the last sample
    f_forms          \* per-sample verdicts of the current candidate

vars == <<centers, angles, dds, stds, social_distance, n_samples,
          threshold_prob, threshold_dist, radii, todo, colors, pc, idx,
          indices, samples_d, k, s_d, new_centers, f_forms>>

inputs == <<centers, angles, dds, stds, social_distance, n_samples,
            threshold_prob, threshold_dist, radii>>

\* Python's None, as a value that is no list (a list has domain 0..n-1)
None == [i \in {-1} |-> 0]

(***************************************************************************)
(* Bounds of the model.                                                    *)
(***************************************************************************)
MaxPeople == 3    \* people in a frame of the deterministic scenes
MaxSamples == 2   \* largest n_samples

(***************************************************************************)
(* Python and numpy helpers.                                               *)
(***************************************************************************)
Len0(f) == Cardinality(DOMAIN f)

\* list[i]: a negative index counts from the end
PyIdx(i, n) == IF i < 0 THEN n + i ELSE i

\* list[i] raises IndexError
PyOut(i, n) == i >= n \/ i < 0 - n

At(f, i) == f[PyIdx(i, Len0(f))]

Range(s) == {s[i] : i \in DOMAIN s}

Sq(a) == a * a

\* squared Euclidean distance of two points
Dist2(p, q) == Sq(p[1] - q[1]) + Sq(p[2] - q[2])

Min2(a, b) == IF a <= b THEN a ELSE b

\* 5 * cos and 5 * sin of the angles of the model (degrees)
Cos5(t) == CASE t = 0 -> 5 [] t = 90 -> 0 [] t = 180 -> -5 [] t = 270 -> 0
             [] t = 53 -> 3
Sin5(t) == CASE t = 0 -> 0 [] t = 90 -> 5 [] t = 180 -> 0 [] t = 270 -> -5
             [] t = 53 -> 4

(***************************************************************************)
(* check_f_formations (lines 76-113).                                      *)
(***************************************************************************)
\* line 84: the people whose centres make up other_centers.  The test is
\* "l not in (idx, idx_t)" on the raw indices, so a negative idx excludes
\* nobody.
other_centers(idx_, idx_t, cs) == {l \in DOMAIN cs : l \notin {idx_, idx_t}}

\* lines 93-94, times 5: x + radius * (cos theta, -sin theta)
mu(x, theta, radius) ==
    <<5 * x[1] + radius * Cos5(theta), 5 * x[2] - radius * Sin5(theta)>>

\* line 95, times 10: (mu_0 + mu_1) / 2
o_c(mu_0, mu_1) == <<mu_0[1] + mu_1[1], mu_0[2] + mu_1[2]>>

\* line 99, squared and times 100: |mu_0 - mu_1|, halved under
\* social_distance
d_new(mu_0, mu_1, sd) ==
    IF sd THEN Dist2(mu_0, mu_1) ELSE 4 * Dist2(mu_0, mu_1)

\* lines 100-101, squared and times 100: |x - o_c|
d_x(x, oc) == Dist2(<<10 * x[1], 10 * x[2]>>, oc)

\* line 107: the distance substituted when there are no other people
Sentinel == 100

\* Orientation with d_new halved whatever social_distance says
OrientationHalved(idx_, idx_t, cs, an, radius, sd) ==
    LET mu_0 == mu(At(cs, idx_), At(an, idx_), radius)
        mu_1 == mu(At(cs, idx_t), At(an, idx_t), radius)
        oc == o_c(mu_0, mu_1)
    IN  d_new(mu_0, mu_1, TRUE)
            <= Min2(d_x(At(cs, idx_), oc), d_x(At(cs, idx_t), oc))

\* line 111, first conjunct: d_new <= min(d_0, d_1)
Orientation(idx_, idx_t, cs, an, radius, sd) ==
    LET mu_0 == mu(At(cs, idx_), At(an, idx_), radius)
        mu_1 == mu(At(cs, idx_t), At(an, idx_t), radius)
        oc == o_c(mu_0, mu_1)
    IN  d_new(mu_0, mu_1, sd)
            <= Min2(d_x(At(cs, idx_), oc), d_x(At(cs, idx_t), oc))

\* lines 104-107 and line 111, second conjunct:
\* np.min(other_distances) > radius.  A distance is >= 0, so it exceeds
\* every negative radius; otherwise the squares (times 100) are compared.
NoIntrusion(idx_, idx_t, cs, an, radius) ==
    LET mu_0 == mu(At(cs, idx_), At(an, idx_), radius)
        mu_1 == mu(At(cs, idx_t), At(an, idx_t), radius)
        oc == o_c(mu_0, mu_1)
        others == other_centers(idx_, idx_t, cs)
    IN  IF others # {}
        THEN \A l \in others :
                 radius < 0 \/ d_x(cs[l], oc) > 100 * Sq(radius)
        ELSE Sentinel > radius

\* RadiusLoop returning after the first radius it looks at
RadiusLoopFirst(idx_, idx_t, cs, an, rs, sd, i) ==
    IF i > Len(rs) THEN FALSE
    ELSE /\ Orientation(idx_, idx_t, cs, an, rs[i], sd)
         /\ NoIntrusion(idx_, idx_t, cs, an, rs[i])

\* lines 89-113: the loop over radii, from position i of the sequence
RECURSIVE RadiusLoop(_, _, _, _, _, _, _)
RadiusLoop(idx_, idx_t, cs, an, rs, sd, i) ==
    IF i > Len(rs) THEN FALSE
    ELSE IF Orientation(idx_, idx_t, cs, an, rs[i], sd)
            /\ NoIntrusion(idx_, idx_t, cs, an, rs[i])
         THEN TRUE
         ELSE RadiusLoop(idx_, idx_t, cs, an, rs, sd, i + 1)

check_f_formations(idx_, idx_t, cs, an, rs, sd) ==
    RadiusLoop(idx_, idx_t, cs, an, rs, sd, 1)

\* lines 85-86: angles[idx] or angles[idx_t] raises IndexError
AnglesRaise(idx_, idx_t, an) ==
    PyOut(idx_, Len0(an)) \/ PyOut(idx_t, Len0(an))

(***************************************************************************)
(* social_interactions (lines 25-73).                                      *)
(***************************************************************************)
\* line 34, squared: the distance of every person to centers[idx]
distances(idx_, cs) == [i \in DOMAIN cs |-> Dist2(At(cs, idx_), cs[i])]

\* line 35: np.argsort(distances), as the sequence sorted_idxs.  The
\* default sort is not stable: every ascending order of the indices is a
\* possible result.  An ascending order starts with any index of least
\* distance and goes on with an ascending order of the rest.
RECURSIVE Ascending(_, _)
Ascending(rest, d) ==
    IF rest = {} THEN {<<>>}
    ELSE UNION {{<<m>> \o tl : tl \in Ascending(rest \ {m}, d)} :
                   m \in {x \in rest : \A y \in rest : d[x] <= d[y]}}

argsort(d) == Ascending(DOMAIN d, d)

\* distances[idx_t] <= threshold_dist, on the squares
Within(d2, threshold) == threshold >= 0 /\ d2 <= Sq(threshold)

\* line 36: sorted_idxs[1:] filtered by the threshold, order kept
Candidates(sorted_idxs, d, threshold) ==
    LET Near(j) == Within(d[j], threshold)
    IN  SelectSeq(Tail(sorted_idxs), Near)

\* delta_d taking the sample itself for the displacement
delta_dSample(dd, sm, s, el) == At(sm[s], el)

\* line 62: dds[el] - float(samples_d[s_d, el])
delta_d(dd, sm, s, el) == At(dd, el) - At(sm[s], el)

\* the integer whose square is a (the centres of the model have one)
Root(a) == CHOOSE n \in 0..a : n * n = a

\* lines 63-67: theta = atan2(z, x); the centre moves by
\* delta * (cos theta, sin theta).  atan2(0, 0) = 0.
Shift(c, delta) ==
    IF c = <<0, 0>> THEN <<delta, 0>>
    ELSE LET n == Root(Sq(c[1]) + Sq(c[2]))
         IN  <<c[1] + (delta * c[1]) \div n, c[2] + (delta * c[2]) \div n>>

\* deepcopy hoisted out of the sample loop: the samples after the first
\* go on from the centres of the sample before
deepcopyOnce(cs, previous, s) == IF s = 0 THEN cs ELSE previous

\* line 60: new_centers = copy.deepcopy(centers), inside the sample loop
deepcopy(cs, previous, s) == cs

\* lines 60-67: the centres of sample s for the pair (idx, idx_t); el runs
\* over idx and then idx_t
Perturbed(cs, previous, idx_, idx_t, dd, sm, s) ==
    LET c0 == deepcopy(cs, previous, s)
        i0 == PyIdx(idx_, Len0(cs))
        c1 == [c0 EXCEPT ![i0] = Shift(@, delta_d(dd, sm, s, idx_))]
    IN  [c1 EXCEPT ![idx_t] = Shift(@, delta_d(dd, sm, s, idx_t))]

\* line 71: sum(f_forms)
Count(ff) == Cardinality({i \in DOMAIN ff : ff[i]})

\* Reached with a strict comparison
ReachedStrict(ff, n, prob) == Count(ff) * prob[2] > prob[1] * n

\* line 71: (sum(f_forms) / n_samples) >= threshold_prob, with
\* threshold_prob = prob[1] / prob[2]
Reached(ff, n, prob) == Count(ff) * prob[2] >= prob[1] * n

\* lines 50-53: torch.tensor(None) raises, and torch.cat raises on columns
\* of different lengths
SamplingRaises(dd, sd_) ==
    dd = None \/ sd_ = None \/ Len0(dd) # Len0(sd_)

\* the deviations a Laplace sample of scale sigma takes in the model
Deviations(sigma) == IF sigma = 0 THEN {0} ELSE {0 - sigma, sigma}

\* line 54: laplace_sampling(laplace_d, n_samples): one row per sample,
\* one column per person, drawn around dds with scale stds
laplace_sampling(dd, sd_, n) ==
    LET Values == UNION {{dd[i] + e : e \in Deviations(sd_[i])} : i \in DOMAIN dd}
        Rows == {r \in [DOMAIN dd -> Values] :
                    \A i \in DOMAIN dd : r[i] - dd[i] \in Deviations(sd_[i])}
    IN  [0..(n - 1) -> Rows]

\* line 62: dds[el] or samples_d[s_d, el] raises IndexError
DepthRaises(idx_, idx_t, dd) ==
    PyOut(idx_, Len0(dd)) \/ PyOut(idx_t, Len0(dd))

(***************************************************************************)
(* Actions.                                                                *)
(***************************************************************************)
\* lines 41-45 and 73: the deterministic loop from position i of indices;
\* the outcome of the call is a verdict or an exception
RECURSIVE Deterministic(_, _, _, _, _, _, _)
Deterministic(idx_, ind, cs, an, rs, sd, i) ==
    IF i > Len(ind) THEN [raised |-> FALSE, value |-> FALSE]
    ELSE IF AnglesRaise(idx_, ind[i], an)
         THEN [raised |-> TRUE, value |-> FALSE]
    ELSE IF check_f_formations(idx_, ind[i], cs, an, rs, sd)
         THEN [raised |-> FALSE, value |-> TRUE]
         ELSE Deterministic(idx_, ind, cs, an, rs, sd, i + 1)

Return(v) ==
    /\ colors' = Append(colors, v)
    /\ todo' = Tail(todo)
    /\ pc' = "idle"

Raise == pc' = "raised" /\ UNCHANGED <<colors, todo>>

\* lines 31-36: the candidate lists the call can build
CandidateLists(idx_) ==
    UNION {{Candidates(p, d, threshold_dist) : p \in argsort(d)} :
               d \in {distances(idx_, centers)}}

\* show_social, line 230, evaluates the next focal index;
\* social_interactions with n_samples < 2, up to the candidate list
\* (lines 31-40)
CallDeterministic ==
    /\ pc = "idle"
    /\ todo # <<>>
    /\ n_samples < 2
    /\ idx' = Head(todo)
    /\ IF PyOut(Head(todo), Len0(centers))
       THEN Raise /\ indices' = <<>>
       ELSE /\ indices' \in CandidateLists(Head(todo))
            /\ pc' = "det"
            /\ UNCHANGED <<colors, todo>>
    /\ UNCHANGED <<inputs, samples_d, k, s_d, new_centers, f_forms>>

\* lines 41-45 and 73: the deterministic loop and the return
DeterministicLoop ==
    /\ pc = "det"
    /\ \E out \in {Deterministic(idx, indices, centers, angles, radii,
                                 social_distance, 1)} :
           IF out.raised THEN Raise ELSE Return(out.value)
    /\ UNCHANGED <<inputs, idx, indices, samples_d, k, s_d, new_centers,
                   f_forms>>

\* show_social, line 230, evaluates the next focal index;
\* social_interactions with n_samples >= 2, up to the sample matrix
\* (lines 31-36 and 48-54)
CallProbabilistic ==
    /\ pc = "idle"
    /\ todo # <<>>
    /\ n_samples >= 2
    /\ idx' = Head(todo)
    /\ IF PyOut(Head(todo), Len0(centers))
       THEN Raise /\ indices' = <<>> /\ samples_d' = <<>>
       ELSE /\ indices' \in CandidateLists(Head(todo))
            /\ IF SamplingRaises(dds, stds)
               THEN Raise /\ samples_d' = <<>>
               ELSE /\ samples_d' \in laplace_sampling(dds, stds, n_samples)
                    /\ pc' = "prob"
                    /\ UNCHANGED <<colors, todo>>
    /\ k' = 1
    /\ s_d' = 0
    /\ f_forms' = <<>>
    /\ new_centers' = <<>>
    /\ UNCHANGED inputs

\* lines 59-70: one sample of the current candidate
Sample ==
    /\ pc = "prob"
    /\ k <= Len(indices)
    /\ s_d < n_samples
    /\ IF DepthRaises(idx, indices[k], dds)
       THEN Raise /\ UNCHANGED <<new_centers, f_forms, s_d>>
       ELSE /\ new_centers' = Perturbed(centers, new_centers, idx, indices[k],
                                        dds, samples_d, s_d)
            /\ IF AnglesRaise(idx, indices[k], angles)
               THEN Raise /\ UNCHANGED <<f_forms, s_d>>
               ELSE /\ f_forms' = Append(f_forms,
                          check_f_formations(idx, indices[k], new_centers',
                                             angles, radii, social_distance))
                    /\ s_d' = s_d + 1
                    /\ UNCHANGED <<colors, todo, pc>>
    /\ UNCHANGED <<inputs, idx, indices, samples_d, k>>

\* lines 71-73: the verdict on the current candidate, or the end of the
\* candidate loop
Decide ==
    /\ pc = "prob"
    /\ IF k > Len(indices) THEN TRUE ELSE s_d = n_samples
    /\ IF k > Len(indices)
       THEN Return(FALSE) /\ UNCHANGED <<k, s_d, f_forms>>
       ELSE IF Reached(f_forms, n_samples, threshold_prob)
            THEN Return(TRUE) /\ UNCHANGED <<k, s_d, f_forms>>
            ELSE /\ k' = k + 1
                 /\ s_d' = 0
                 /\ f_forms' = <<>>
                 /\ UNCHANGED <<colors, todo, pc>>
    /\ UNCHANGED <<inputs, idx, indices, samples_d, new_centers>>

Next ==
    \/ CallDeterministic
    \/ DeterministicLoop
    \/ CallProbabilistic
    \/ Sample
    \/ Decide

NextDet ==
    \/ CallDeterministic
    \/ DeterministicLoop

NextProb ==
    \/ CallProbabilistic
    \/ Sample
    \/ Decide

(***************************************************************************)
(* Initial states: the arguments of one frame, before the first call.      *)
(***************************************************************************)
List(n, S) == [0..(n - 1) -> S]

\* range(n) as the sequence of focal indices of show_social's loop
Loop(n) == [i \in 1..n |-> i - 1]

Fresh ==
    /\ colors = <<>>
    /\ pc = "idle"
    /\ idx = 0
    /\ indices = <<>>
    /\ samples_d = <<>>
    /\ k = 1
    /\ s_d = 0
    /\ new_centers = <<>>
    /\ f_forms = <<>>

ScenePositions == {<<0, 0>>, <<1, 0>>, <<2, 0>>, <<3, 0>>}
SceneAngles == {0, 90, 180}
SceneRadii == {<<1>>, <<1, 2>>}
Depths == {4}

\* Deterministic scenes: n_samples = 1, the other keywords at their
\* defaults.  The people stand on a line and are listed from left to right,
\* the first at the origin: the deterministic path reads only differences
\* of positions, and the order of a tie in argsort is open whatever the
\* order of the list.
InitScenes ==
    /\ \E n \in 1..MaxPeople :
          /\ centers \in {c \in List(n, ScenePositions) :
                            /\ c[0] = <<0, 0>>
                            /\ \A i \in 1..(n - 1) : c[i - 1][1] <= c[i][1]}
          /\ angles \in List(n, SceneAngles)
          /\ dds \in List(n, Depths)
          /\ todo = Loop(n)
    /\ stds = None
    /\ social_distance \in BOOLEAN
    /\ n_samples = 1
    /\ threshold_prob = <<1, 4>>
    /\ threshold_dist = 2
    /\ radii \in SceneRadii
    /\ Fresh

SampledPositions == {<<-1, 0>>, <<1, 0>>}
SampledAngles == {0, 180}
Scales == {0, 1}
Probabilities == {<<0, 1>>, <<1, 2>>, <<1, 1>>}

\* Sampled scenes, called as show_social calls (social_distance at its
\* default): one or two people with uncertain depth, and possibly a third
\* person of certain depth standing between them.
InitSampled ==
    /\ \E n \in {1, 2} :
          /\ \E third \in {<<>>, <<<<0, 0>>>>} :
                centers \in {c \in List(n + Len(third), SampledPositions \cup Range(third)) :
                                /\ \A i \in 0..(n - 1) : c[i] \in SampledPositions
                                /\ \A i \in n..(n + Len(third) - 1) : c[i] = third[1]}
          /\ angles \in {a \in List(Len0(centers), SampledAngles) :
                            \A i \in n..(Len0(centers) - 1) : a[i] = 0}
          /\ dds \in List(Len0(centers), Depths)
          /\ stds \in {s \in List(Len0(centers), Scales) :
                          \A i \in n..(Len0(centers) - 1) : s[i] = 0}
          /\ todo = Loop(Len0(centers))
    /\ social_distance = FALSE
    /\ n_samples \in 2..MaxSamples
    /\ threshold_prob \in Probabilities
    /\ threshold_dist = 2
    /\ radii = <<1>>
    /\ Fresh

WideRadii == {<<99>>, <<100>>, <<1, 100>>}

\* Two people and a personal space as wide as the sentinel distance of
\* line 107.
InitWide ==
    /\ centers \in List(2, {<<0, 0>>, <<2, 0>>})
    /\ angles \in List(2, SceneAngles)
    /\ dds \in List(2, Depths)
    /\ todo = Loop(2)
    /\ stds = None
    /\ social_distance \in BOOLEAN
    /\ n_samples = 1
    /\ threshold_prob = <<1, 4>>
    /\ threshold_dist = 2
    /\ radii \in WideRadii
    /\ Fresh

\* Arguments as a caller that validates nothing may pass them: a focal
\* index outside the list, radii that are not positive, a probability
\* outside [0, 1], missing depth data, lists of different lengths.
InitUnchecked ==
    /\ centers \in {[i \in 0..1 |-> <<1, 0>>],
                    [i \in 0..1 |-> IF i = 0 THEN <<-1, 0>> ELSE <<1, 0>>]}
    /\ angles \in {[i \in 0..m |-> IF i = 1 THEN 180 ELSE 0] : m \in 0..2}
    /\ dds \in {None} \cup {[i \in 0..m |-> 4] : m \in 0..2}
    /\ stds \in {None} \cup {[i \in 0..m |-> 0] : m \in 0..2}
    /\ todo \in {Loop(2), <<-1>>, <<2>>}
    /\ social_distance = FALSE
    /\ n_samples \in {1, 2}
    /\ threshold_prob \in {<<1, 2>>, <<3, 2>>, <<-1, 2>>}
    /\ threshold_dist = 2
    /\ radii \in {<<1>>, <<0>>, <<-1>>}
    /\ Fresh

Init == InitScenes \/ InitWide \/ InitSampled \/ InitUnchecked

Spec == Init /\ [][Next]_vars

\* the deterministic path alone
InitDet == InitScenes \/ InitWide

SpecDet == InitDet /\ [][NextDet]_vars

\* the probabilistic path alone
SpecProb == InitSampled /\ [][NextProb]_vars

(***************************************************************************)
(* Properties.                                                             *)
(***************************************************************************)
People == DOMAIN centers

\* the last call has returned a verdict
Returned == pc = "idle" /\ colors # <<>>

Verdict == colors[Len(colors)]

\* the caller's loop has evaluated every focal index
Finished == pc = "idle" /\ todo = <<>> /\ Len(colors) = Len0(centers)

\* the people other than i within threshold_dist of i
NearOthers(i) ==
    {j \in People : j # i /\ Within(Dist2(centers[i], centers[j]), threshold_dist)}

\* C1: the candidate list built for idx holds exactly the people other than
\* idx within threshold_dist of idx (boundary included), each once, in
\* ascending order of distance
C1_CandidateSet ==
    pc = "det" =>
        /\ Range(indices) = NearOthers(idx)
        /\ Len(indices) = Cardinality(Range(indices))
        /\ \A a, b \in 1..Len(indices) :
               a < b => Dist2(centers[idx], centers[indices[a]])
                            <= Dist2(centers[idx], centers[indices[b]])

\* C2: the deterministic call returns true exactly if some other person
\* within threshold_dist of idx passes check_f_formations on the
\* unperturbed centres
C2_DeterministicVerdict ==
    (Returned /\ n_samples < 2) =>
        (Verdict <=> \E j \in NearOthers(idx) :
                         check_f_formations(idx, j, centers, angles, radii,
                                            social_distance))

\* the number of samples of candidate c on which the tester is true, the
\* centres of each sample being perturbed from the caller's centres
TrueSamples(c) ==
    Cardinality({s \in 0..(n_samples - 1) :
        check_f_formations(idx, c,
            Perturbed(centers, <<>>, idx, c, dds, samples_d, s),
            angles, radii, social_distance)})

\* C3: the probabilistic call returns true exactly if for some candidate the
\* fraction of samples on which the tester is true is at least
\* threshold_prob
C3_ProbabilisticVerdict ==
    (Returned /\ n_samples >= 2) =>
        (Verdict <=> \E i \in 1..Len(indices) :
                         TrueSamples(indices[i]) * threshold_prob[2]
                             >= threshold_prob[1] * n_samples)

\* a candidate reached the threshold exactly, with one sample true and one
\* false
C3_Witness ==
    /\ Returned
    /\ n_samples = 2
    /\ threshold_prob = <<1, 2>>
    /\ Verdict
    /\ Count(f_forms) = 1

\* radius sequences to compare with the caller's
RadiiUniverse ==
    LET V == {1, 2, 3} \cup Range(radii)
    IN  {<<a>> : a \in V} \cup {<<a, b>> : a \in V, b \in V}

\* C4: the tester is true exactly if some radius of radii satisfies the
\* orientation and the intrusion condition, and it stays true on every
\* sequence that contains all radii of radii, in any order
C4_ExistentialRadius ==
    pc = "det" =>
        \A i \in 1..Len(indices) :
            LET c == indices[i]
                t == check_f_formations(idx, c, centers, angles, radii,
                                        social_distance)
            IN  /\ t <=> \E r \in Range(radii) :
                             /\ Orientation(idx, c, centers, angles, r,
                                            social_distance)
                             /\ NoIntrusion(idx, c, centers, angles, r)
                /\ t => \A rs \in RadiiUniverse :
                            Range(radii) \subseteq Range(rs) =>
                                check_f_formations(idx, c, centers, angles, rs,
                                                   social_distance)

\* the tester is true on a candidate although the first radius fails
C4_Witness ==
    /\ pc = "det"
    /\ radii = <<1, 2>>
    /\ \E i \in 1..Len(indices) :
           /\ check_f_formations(idx, indices[i], centers, angles, radii,
                                 social_distance)
           /\ ~ (/\ Orientation(idx, indices[i], centers, angles, 1,
                                social_distance)
                 /\ NoIntrusion(idx, indices[i], centers, angles, 1))

\* 100 times the squared distance of person l to the O-space centre of the
\* pair (i, j) at the given radius
ToCentre(l, i, j, radius) ==
    d_x(centers[l], o_c(mu(centers[i], angles[i], radius),
                        mu(centers[j], angles[j], radius)))

\* C5: a third person closer than r to the O-space centre keeps radius r
\* from yielding true, and with two people in the frame the tester equals
\* the orientation condition for every positive radius
C5_Intrusion ==
    pc = "det" =>
        \A i \in 1..Len(indices) :
            LET c == indices[i]
            IN  c # idx =>
                /\ \A r \in Range(radii) :
                       (\E l \in People \ {idx, c} :
                            ToCentre(l, idx, c, r) < 100 * Sq(r))
                           => ~ check_f_formations(idx, c, centers, angles,
                                                   <<r>>, social_distance)
                /\ Len0(centers) = 2 =>
                       (check_f_formations(idx, c, centers, angles, radii,
                                           social_distance)
                            <=> \E r \in Range(radii) :
                                    Orientation(idx, c, centers, angles, r,
                                                social_distance))

\* the two people stand at different places, face the same way, and the
\* line joining them is perpendicular to the facing direction
\* (cos theta, -sin theta)
SideBySide(i, j) ==
    /\ centers[i] # centers[j]
    /\ angles[i] = angles[j]
    /\ (centers[j][1] - centers[i][1]) * Cos5(angles[i])
           - (centers[j][2] - centers[i][2]) * Sin5(angles[i]) = 0

NoUncertainty ==
    \A s \in DOMAIN samples_d : \A el \in DOMAIN dds : samples_d[s][el] = dds[el]

\* what the deterministic path returns on the same arguments
DeterministicVerdict ==
    Deterministic(idx, indices, centers, angles, radii, social_distance, 1).value

C8_Frame ==
    [][/\ centers' = centers
       /\ (pc = "prob" /\ s_d' = s_d + 1) =>
              LET c == indices[k]
                  i0 == PyIdx(idx, Len0(centers))
                  d0 == delta_d(dds, samples_d, s_d, idx)
                  dc == delta_d(dds, samples_d, s_d, c)
              IN  \A l \in People :
                      new_centers'[l] =
                          IF l \notin {i0, c} THEN centers[l]
                          ELSE IF i0 = c THEN Shift(Shift(centers[l], d0), dc)
                          ELSE IF l = i0 THEN Shift(centers[l], d0)
                          ELSE Shift(centers[l], dc)]_vars

\* the second sample of a pair has moved both people and left a third
\* person in place
C8_Witness ==
    /\ pc = "prob"
    /\ s_d = 2
    /\ Len0(centers) = 3
    /\ \E a, b, c \in People :
           /\ a # b
           /\ new_centers[a] # centers[a]
           /\ new_centers[b] # centers[b]
           /\ c \notin {a, b}
           /\ new_centers[c] = centers[c]

\* the arguments break an invariant of the data model
InvalidInput ==
    \/ \E i \in Range(todo) \cup (IF pc = "idle" /\ colors = <<>> THEN {} ELSE {idx}) :
           i < 0 \/ i >= Len0(centers)
    \/ n_samples >= 2 /\ (dds = None \/ stds = None)
    \/ Len0(angles) # Len0(centers)
    \/ dds # None /\ Len0(dds) # Len0(centers)
    \/ stds # None /\ Len0(stds) # Len0(centers)
    \/ \E i \in DOMAIN radii : radii[i] <= 0
    \/ threshold_prob[1] < 0
    \/ threshold_prob[1] > threshold_prob[2]

\* C9: on invalid arguments no call returns a verdict
C9_InvalidInputRaises ==
    InvalidInput => colors = <<>>

\* C10: the tester gives the same result for (idx, idx_t) and (idx_t, idx),
\* and in a deterministic frame nobody is flagged alone
C10_Mutual ==
    /\ pc = "det" =>
           \A i \in 1..Len(indices) :
               check_f_formations(idx, indices[i], centers, angles, radii,
                                  social_distance)
                   <=> check_f_formations(indices[i], idx, centers, angles,
                                          radii, social_distance)
    /\ (Finished /\ n_samples < 2) =>
           \A i \in People :
               colors[i + 1] => \E j \in People \ {i} : colors[j + 1]

=============================================================================
